---- MODULE Spec2Model ----
(***************************************************************************)
(* A model of app.py: the scan / backup / resize / catalog / restore       *)
(* engine of the image adjustment service.                                 *)
(*                                                                         *)
(* The state is the filesystem tree the service works on (file contents,   *)
(* directory permissions), the wall clock that stamps backup names, and    *)
(* the position and locals of each request being served.  A file name is   *)
(* a sequence of characters, so that the prefix test of the scan and the   *)
(* substring test and split of the catalog are computed as the code        *)
(* computes them.                                                          *)
(***************************************************************************)
EXTENDS Integers, Sequences, FiniteSets, TLC

(***************************************************************************)
(* Bounds of the model.                                                    *)
(***************************************************************************)
MaxClock == 1
MaxDim == 1
MaxBatch == 2
MaxReq == 2
MaxCatReq == 3
MaxRestore == 1
MaxTokens == 3
MaxConcReq == 2

(***************************************************************************)
(* Strings.                                                                *)
(***************************************************************************)
\* the literal ".backup_" of app.py lines 63, 108, 155 and 157
SEP == <<".", "b", "a", "c", "k", "u", "p", "_">>

\* s[i..j] of Python, 1-based and inclusive here
Slice(s, i, j) == [k \in 1..(j - i + 1) |-> s[i + k - 1]]

\* str.startswith
StartsWith(s, pre) ==
    /\ Len(pre) <= Len(s)
    /\ \A k \in 1..Len(pre) : s[k] = pre[k]

\* whether sub occurs in s at position i
OccursAt(s, sub, i) ==
    /\ i >= 1
    /\ i + Len(sub) - 1 <= Len(s)
    /\ \A k \in 1..Len(sub) : s[i + k - 1] = sub[k]

\* the "in" operator of Python on strings
Contains(s, sub) == \E i \in 1..(Len(s) + 1) : OccursAt(s, sub, i)

\* position of the first occurrence of sub in s, 0 when there is none
FirstIndex(s, sub) ==
    IF Contains(s, sub)
    THEN CHOOSE i \in 1..(Len(s) + 1) :
            /\ OccursAt(s, sub, i)
            /\ \A j \in 1..(i - 1) : ~OccursAt(s, sub, j)
    ELSE 0

\* s.split(sub)[0]: the part left of the first occurrence, the whole string
\* when sub does not occur
SplitHead(s, sub) ==
    IF FirstIndex(s, sub) = 0 THEN s ELSE Slice(s, 1, FirstIndex(s, sub) - 1)

Digit(d) == <<"0", "1", "2", "3", "4", "5", "6", "7", "8", "9">>[d + 1]

Pad2(n) == <<Digit((n \div 10) % 10), Digit(n % 10)>>

\* the date part "%Y%m%d" of the clock; the model's clock stays within one day
Today == <<"2", "0", "2", "6", "1", "1", "0", "2">>

\* datetime.now().strftime("%Y%m%d%H%M%S") for the clock reading t (seconds
\* since midnight)
Strftime(t) == Today \o Pad2(t \div 3600) \o Pad2((t \div 60) % 60) \o Pad2(t % 60)

\* f"{file_path}.backup_{timestamp}", on the name part of the path
BackupName(n, ts) == n \o SEP \o ts

\* a catalog whose marker lacks the trailing underscore of the scan's
OriginalFromShortMarker(file) == SplitHead(file, Slice(SEP, 1, Len(SEP) - 1))

\* file.split(".backup_")[0]
OriginalFrom(file) == SplitHead(file, SEP)

(***************************************************************************)
(* The tree.  The directories are fixed (the service creates none): a root  *)
(* "r" and its subdirectory "a"; "x" is a path that is no directory.  A      *)
(* path is <<directory, file name>>, os.path.join(root, name).              *)
(***************************************************************************)
Dirs == {"r", "a"}

NoDir == "x"

\* the subdirectories of d, in the order the directory listing gives them
Subdirs(d) == IF d = "r" THEN <<"a">> ELSE <<>>

\* d and the directories above it, up to the root of the tree
Chain(d) == IF d = "a" THEN {"r", "a"} ELSE {d}

\* the file names the scan is asked for; none contains SEP
TargetNames == {<<"p">>}

Timestamps == {Strftime(t) : t \in 0..MaxClock}

Names == TargetNames \cup {BackupName(n, ts) : n \in TargetNames, ts \in Timestamps}

Paths == Dirs \X Names

DirOf(path) == path[1]

\* os.path.basename
Basename(path) == path[2]

\* os.path.join(root, name)
Join(d, n) == <<d, n>>

(***************************************************************************)
(* File contents.  An image has an identity (its pixels' origin) and its   *)
(* dimensions; a file that is no image cannot be opened by the resize.     *)
(***************************************************************************)
Absent == [kind |-> "absent", id |-> 0, w |-> 0, h |-> 0]

Junk == [kind |-> "junk", id |-> 0, w |-> 0, h |-> 0]

OrigDim == MaxDim + 1

Image(i) == [kind |-> "image", id |-> i, w |-> OrigDim, h |-> OrigDim]

\* img.resize((width, height)) followed by save
Resize(c, width, height) == [c EXCEPT !.w = width, !.h = height]

\* the permissions of a directory: read/write/search, read/search, none
Perms == {"rwx", "r-x", "---"}

\* files of a directory can be opened: the directory chain is searchable
Searchable(pm, d) == \A e \in Chain(d) : pm[e] # "---"

\* entries can be created in and removed from the directory
Writable(pm, d) == Searchable(pm, d) /\ pm[d] = "rwx"

\* os.path.isdir: the chain above d must be searchable for the stat
IsDir(pm, d) == d \in Dirs /\ \A e \in Chain(d) \ {d} : pm[e] # "---"

\* the files os.walk yields for directory d; an unlistable directory yields
\* nothing (os.walk's default onerror ignores the error)
Listing(f, pm, d) ==
    IF Searchable(pm, d) THEN {n \in Names : f[Join(d, n)] # Absent} ELSE {}

Ok == "ok"

\* shutil.copy2(src, dst): the error it raises, or Ok
CopyError(f, pm, src, dst) ==
    IF ~Searchable(pm, DirOf(src)) THEN "PermissionError"
    ELSE IF f[src] = Absent THEN "FileNotFoundError"
    ELSE IF src = dst THEN "SameFileError"
    ELSE IF ~Searchable(pm, DirOf(dst)) THEN "PermissionError"
    ELSE IF f[dst] = Absent /\ ~Writable(pm, DirOf(dst)) THEN "PermissionError"
    ELSE Ok

\* the tree after a successful shutil.copy2(src, dst)
CopyResult(f, src, dst) == [f EXCEPT ![dst] = f[src]]

\* Image.open / resize / save: the error raised, or Ok
TransformError(f, pm, path) ==
    IF ~Searchable(pm, DirOf(path)) THEN "PermissionError"
    ELSE IF f[path] = Absent THEN "FileNotFoundError"
    ELSE IF f[path].kind # "image" THEN "UnidentifiedImageError"
    ELSE Ok

\* the tree after a successful resize of path
TransformResult(f, path, width, height) ==
    [f EXCEPT ![path] = Resize(f[path], width, height)]

\* os.remove(path): the error raised, or Ok
RemoveError(f, pm, path) ==
    IF ~Searchable(pm, DirOf(path)) THEN "PermissionError"
    ELSE IF f[path] = Absent THEN "FileNotFoundError"
    ELSE IF ~Writable(pm, DirOf(path)) THEN "PermissionError"
    ELSE Ok

\* the tree after a successful os.remove(path)
RemoveResult(f, path) == [f EXCEPT ![path] = Absent]

(***************************************************************************)
(* Requests being served.  A process is one request worker of the server;  *)
(* the reference behaviour serves one request at a time (SeqProcs).         *)
(***************************************************************************)
Procs == {1, 2}

SeqProcs == {1}

VARIABLES
    fs,      \* the tree: path -> content (Absent when there is no file)
    perm,    \* directory -> its permissions
    clock,   \* the wall clock, seconds since midnight
    pc,      \* process -> where it is in its handler
    scan,    \* process -> the locals of scan_and_resize
    rst,     \* process -> the locals of restore_files
    fs0,     \* process -> the tree when its request arrived
    last,    \* the request served most recently, when it was a scan that
             \* returned a report: the request and the report
    known,   \* the backup records /scan-backups has returned so far
    nreq,    \* requests received so far
    nrest,   \* restore requests received so far
    marked,  \* some restore item so far named a backup as its original_path
    nm       \* the naming round trip: name, timestamp, backup name, derived name

vars == <<fs, perm, clock, pc, scan, rst, fs0, last, known, nreq, nrest, marked, nm>>

\* the JSON body returned, with the fields of all three endpoints
NoRes ==
    [code |-> 0, error |-> "", dry_run |-> FALSE, scanned_path |-> "",
     files_found |-> 0, processed |-> 0, restored |-> 0,
     logs |-> <<>>, backups |-> <<>>]

NoReq ==
    [folder_path |-> "", image_name |-> <<>>, width |-> 0, height |-> 0,
     dry_run |-> FALSE, files |-> <<>>]

\* no scan report was the latest answer
NoExchange == [op |-> "none", req |-> NoReq, res |-> NoRes]

NoScan ==
    [req |-> NoReq, stack |-> <<>>, full_path |-> <<>>, backup_path |-> <<>>,
     found_files |-> <<>>, processed_count |-> 0, details |-> <<>>]

NoRestore ==
    [files |-> <<>>, idx |-> 0, restored_count |-> 0, logs |-> <<>>]

NoNaming == [step |-> "off", n |-> <<>>, t |-> 0, backup |-> <<>>, original |-> <<>>]

\* one line of the scan's "logs": "[tag] path -> msg"
Entry(tag, path, text, name, width, height) ==
    [tag |-> tag, path |-> path, text |-> text, name |-> name,
     w |-> width, h |-> height]

\* one line of the restore's "logs"
RestoreEntry(isOk, text, path, err) ==
    [ok |-> isOk, text |-> text, path |-> path, err |-> err]

\* the request's answer is returned
Complete(p, op, rq, res) ==
    /\ pc' = [pc EXCEPT ![p] = "idle"]
    /\ fs0' = [fs0 EXCEPT ![p] = fs]
    /\ last' = IF op = "scan" /\ res.code = 200
               THEN [op |-> op, req |-> rq, res |-> res]
               ELSE NoExchange

\* the trees the service is first pointed at: the root holds the target
\* file or not, the subdirectory holds one that is an image or is not, and
\* there is no backup yet
InitTrees ==
    {f \in [Paths -> {Absent, Junk, Image(1), Image(2)}] :
        /\ \A path \in Paths : Contains(Basename(path), SEP) => f[path] = Absent
        /\ f[Join("r", <<"p">>)] \in {Absent, Image(1)}
        /\ f[Join("a", <<"p">>)] \in {Junk, Image(2)}}

\* the permissions of the tree: at most one directory is restricted
InitPerms ==
    {pm \in [Dirs -> Perms] : \E d \in Dirs : \A e \in Dirs \ {d} : pm[e] = "rwx"}

Init ==
    /\ fs \in InitTrees
    /\ perm \in InitPerms
    /\ clock = 0
    /\ pc = [p \in Procs |-> "idle"]
    /\ scan = [p \in Procs |-> NoScan]
    /\ rst = [p \in Procs |-> NoRestore]
    /\ fs0 = [p \in Procs |-> fs]
    /\ last = NoExchange
    /\ known = {}
    /\ nreq = 0
    /\ nrest = 0
    /\ marked = FALSE
    /\ nm = NoNaming

\* time passes
Tick ==
    /\ clock < MaxClock
    /\ clock' = clock + 1
    /\ UNCHANGED <<fs, perm, pc, scan, rst, fs0, last, known, nreq, nrest, marked, nm>>

(***************************************************************************)
(* POST /scan-and-resize                                                   *)
(***************************************************************************)
Dims == 0..MaxDim

ScanRequests ==
    [folder_path : Dirs \cup {NoDir}, image_name : TargetNames \cup {<<>>},
     width : Dims, height : Dims, dry_run : BOOLEAN, files : {<<>>}]

\* all([folder_path, target_filename, width, height])
AllFields(rq) ==
    /\ rq.folder_path # ""
    /\ rq.image_name # <<>>
    /\ rq.width # 0
    /\ rq.height # 0

\* a check that looks for the marker without its dot
HasBackupWrongPrefix(files, target_filename) ==
    \E f \in files : StartsWith(f, target_filename \o Tail(SEP))

\* a check that compares whole names instead of prefixes
HasBackupExact(files, target_filename) ==
    \E f \in files : f = target_filename \o SEP

\* a presence check that never finds a backup
HasBackupNever(files, target_filename) == FALSE

\* any(f.startswith(backup_prefix) for f in files)
HasBackup(files, target_filename) ==
    \E f \in files : StartsWith(f, target_filename \o SEP)

\* the report returned when the walk is over
ScanResult(sc) ==
    [NoRes EXCEPT !.code = 200,
                  !.dry_run = sc.req.dry_run,
                  !.scanned_path = sc.req.folder_path,
                  !.files_found = Len(sc.found_files),
                  !.processed = sc.processed_count,
                  !.logs = sc.details]

\* the request is read and checked; a bad one is answered at once
ScanStart(p, rq) ==
    /\ pc[p] = "idle"
    /\ nreq' = nreq + 1
    /\ IF ~AllFields(rq)
       THEN /\ Complete(p, "scan", rq,
                        [NoRes EXCEPT !.code = 400,
                                      !.error = "Missing required fields"])
            /\ UNCHANGED scan
       ELSE IF ~IsDir(perm, rq.folder_path)
       THEN /\ Complete(p, "scan", rq,
                        [NoRes EXCEPT !.code = 404,
                                      !.error = "Directory does not exist"])
            /\ UNCHANGED scan
       ELSE /\ scan' = [scan EXCEPT ![p] =
                            [NoScan EXCEPT !.req = rq,
                                           !.stack = <<rq.folder_path>>]]
            /\ pc' = [pc EXCEPT ![p] = "walk"]
            /\ fs0' = [fs0 EXCEPT ![p] = fs]
            /\ UNCHANGED last
    /\ UNCHANGED <<fs, perm, clock, rst, known, nrest, marked, nm>>

\* the directories still to visit once d has been listed: os.walk descends
\* into the subdirectories of a directory it could list, and skips one it
\* could not
WalkRest(pm, stack) ==
    IF Searchable(pm, Head(stack))
    THEN Subdirs(Head(stack)) \o Tail(stack)
    ELSE Tail(stack)

\* a process_image that never looks at dry_run
IsDryRunNever(sc) == FALSE

\* "if dry_run:" of process_image
IsDryRun(sc) == sc.req.dry_run

\* a dry run that reports a would-be match as skipped
DryRunEntrySkipped(sc, full_path, now) ==
    Entry("SKIPPED", full_path, "[DRY RUN] Would backup and resize",
          BackupName(Basename(full_path), Strftime(now)),
          sc.req.width, sc.req.height)

\* what process_image returns in dry-run mode
DryRunEntry(sc, full_path, now) ==
    Entry("OK", full_path, "[DRY RUN] Would backup and resize",
          BackupName(Basename(full_path), Strftime(now)),
          sc.req.width, sc.req.height)

\* a scan whose presence check looks at the files of the whole tree
ScanWalkTreeWideCheck(p) ==
    /\ pc[p] = "walk"
    /\ scan[p].stack # <<>>
    /\ LET sc == scan[p]
           d == Head(sc.stack)
           files == Listing(fs, perm, d)
           everywhere == UNION {Listing(fs, perm, e) : e \in Dirs}
           rest == WalkRest(perm, sc.stack)
           target == sc.req.image_name
           full_path == Join(d, target)
       IN  IF target \notin files
           THEN /\ scan' = [scan EXCEPT ![p].stack = rest]
                /\ UNCHANGED pc
           ELSE IF HasBackup(everywhere, target)
           THEN /\ scan' = [scan EXCEPT
                       ![p].stack = rest,
                       ![p].details = Append(sc.details,
                           Entry("SKIPPED", full_path,
                                 "Skipped (Backup already exists)", <<>>, 0, 0)),
                       ![p].found_files = Append(sc.found_files, full_path)]
                /\ UNCHANGED pc
           ELSE IF IsDryRun(sc)
           THEN /\ scan' = [scan EXCEPT
                       ![p].stack = rest,
                       ![p].found_files = Append(sc.found_files, full_path),
                       ![p].details = Append(sc.details,
                                             DryRunEntry(sc, full_path, clock)),
                       ![p].processed_count = sc.processed_count + 1]
                /\ UNCHANGED pc
           ELSE /\ scan' = [scan EXCEPT
                       ![p].stack = rest,
                       ![p].found_files = Append(sc.found_files, full_path),
                       ![p].full_path = full_path]
                /\ pc' = [pc EXCEPT ![p] = "backup"]
    /\ UNCHANGED <<fs, perm, clock, rst, fs0, last, known, nreq, nrest, marked, nm>>

\* one turn of "for root, dirs, files in os.walk(folder_path)", up to the
\* call of process_image: the directory is listed, a match is looked for,
\* skipped when a backup is beside it, and in dry-run mode reported
ScanWalk(p) ==
    /\ pc[p] = "walk"
    /\ scan[p].stack # <<>>
    /\ LET sc == scan[p]
           d == Head(sc.stack)
           files == Listing(fs, perm, d)
           rest == WalkRest(perm, sc.stack)
           target == sc.req.image_name
           full_path == Join(d, target)
       IN  IF target \notin files
           THEN /\ scan' = [scan EXCEPT ![p].stack = rest]
                /\ UNCHANGED pc
           ELSE IF HasBackup(files, target)
           THEN /\ scan' = [scan EXCEPT
                       ![p].stack = rest,
                       ![p].details = Append(sc.details,
                           Entry("SKIPPED", full_path,
                                 "Skipped (Backup already exists)", <<>>, 0, 0)),
                       ![p].found_files = Append(sc.found_files, full_path)]
                /\ UNCHANGED pc
           ELSE IF IsDryRun(sc)
           THEN /\ scan' = [scan EXCEPT
                       ![p].stack = rest,
                       ![p].found_files = Append(sc.found_files, full_path),
                       ![p].details = Append(sc.details,
                                             DryRunEntry(sc, full_path, clock)),
                       ![p].processed_count = sc.processed_count + 1]
                /\ UNCHANGED pc
           ELSE /\ scan' = [scan EXCEPT
                       ![p].stack = rest,
                       ![p].found_files = Append(sc.found_files, full_path),
                       ![p].full_path = full_path]
                /\ pc' = [pc EXCEPT ![p] = "backup"]
    /\ UNCHANGED <<fs, perm, clock, rst, fs0, last, known, nreq, nrest, marked, nm>>

\* a process_image whose copy has a try of its own and goes on to the resize
ScanBackupIgnoreError(p) ==
    /\ pc[p] = "backup"
    /\ LET sc == scan[p]
           backup_path == Join(DirOf(sc.full_path),
                               BackupName(Basename(sc.full_path), Strftime(clock)))
           err == CopyError(fs, perm, sc.full_path, backup_path)
       IN  /\ fs' = IF err = Ok THEN CopyResult(fs, sc.full_path, backup_path) ELSE fs
           /\ scan' = IF err = Ok
                      THEN [scan EXCEPT ![p].backup_path = backup_path]
                      ELSE scan
    /\ pc' = [pc EXCEPT ![p] = "transform"]
    /\ UNCHANGED <<perm, clock, rst, fs0, last, known, nreq, nrest, marked, nm>>

\* a scan whose copy error is not caught per file: the walk ends there
ScanBackupAbort(p) ==
    /\ pc[p] = "backup"
    /\ LET sc == scan[p]
           backup_path == Join(DirOf(sc.full_path),
                               BackupName(Basename(sc.full_path), Strftime(clock)))
           err == CopyError(fs, perm, sc.full_path, backup_path)
       IN  IF err = Ok
           THEN /\ fs' = CopyResult(fs, sc.full_path, backup_path)
                /\ pc' = [pc EXCEPT ![p] = "transform"]
                /\ scan' = [scan EXCEPT ![p].backup_path = backup_path]
           ELSE /\ scan' = [scan EXCEPT
                       ![p].details = Append(sc.details,
                           Entry("FAIL", sc.full_path, err, <<>>, 0, 0)),
                       ![p].stack = <<>>]
                /\ pc' = [pc EXCEPT ![p] = "walk"]
                /\ UNCHANGED fs
    /\ UNCHANGED <<perm, clock, rst, fs0, last, known, nreq, nrest, marked, nm>>

\* a process_image that resizes the file before it copies it
ScanBackupResizeFirst(p) ==
    /\ pc[p] = "backup"
    /\ LET sc == scan[p]
           backup_path == Join(DirOf(sc.full_path),
                               BackupName(Basename(sc.full_path), Strftime(clock)))
           terr == TransformError(fs, perm, sc.full_path)
           resized == IF terr = Ok
                      THEN TransformResult(fs, sc.full_path, sc.req.width, sc.req.height)
                      ELSE fs
           err == CopyError(resized, perm, sc.full_path, backup_path)
       IN  IF err = Ok
           THEN /\ fs' = CopyResult(resized, sc.full_path, backup_path)
                /\ pc' = [pc EXCEPT ![p] = "transform"]
                /\ scan' = [scan EXCEPT ![p].backup_path = backup_path]
           ELSE /\ scan' = [scan EXCEPT ![p].details = Append(sc.details,
                               Entry("FAIL", sc.full_path, err, <<>>, 0, 0))]
                /\ pc' = [pc EXCEPT ![p] = "walk"]
                /\ fs' = resized
    /\ UNCHANGED <<perm, clock, rst, fs0, last, known, nreq, nrest, marked, nm>>

\* process_image, step 1: the timestamp is taken and the file is copied to
\* its backup path; an error ends process_image with (False, str(e))
ScanBackup(p) ==
    /\ pc[p] = "backup"
    /\ LET sc == scan[p]
           backup_path == Join(DirOf(sc.full_path),
                               BackupName(Basename(sc.full_path), Strftime(clock)))
           err == CopyError(fs, perm, sc.full_path, backup_path)
       IN  IF err = Ok
           THEN /\ fs' = CopyResult(fs, sc.full_path, backup_path)
                /\ pc' = [pc EXCEPT ![p] = "transform"]
                /\ scan' = [scan EXCEPT ![p].backup_path = backup_path]
           ELSE /\ scan' = [scan EXCEPT ![p].details = Append(sc.details,
                               Entry("FAIL", sc.full_path, err, <<>>, 0, 0))]
                /\ pc' = [pc EXCEPT ![p] = "walk"]
                /\ UNCHANGED fs
    /\ UNCHANGED <<perm, clock, rst, fs0, last, known, nreq, nrest, marked, nm>>

\* a process_image that deletes the backup again when the resize fails
ScanTransformRollback(p) ==
    /\ pc[p] = "transform"
    /\ LET sc == scan[p]
           err == TransformError(fs, perm, sc.full_path)
       IN  IF err = Ok
           THEN /\ fs' = TransformResult(fs, sc.full_path, sc.req.width, sc.req.height)
                /\ scan' = [scan EXCEPT
                       ![p].details = Append(sc.details,
                           Entry("OK", sc.full_path, "Success",
                                 Basename(sc.backup_path), 0, 0)),
                       ![p].processed_count = sc.processed_count + 1]
           ELSE /\ scan' = [scan EXCEPT ![p].details = Append(sc.details,
                               Entry("FAIL", sc.full_path, err, <<>>, 0, 0))]
                /\ fs' = RemoveResult(fs, sc.backup_path)
    /\ pc' = [pc EXCEPT ![p] = "walk"]
    /\ UNCHANGED <<perm, clock, rst, fs0, last, known, nreq, nrest, marked, nm>>

\* a scan that counts a match as processed whatever process_image returned
ScanTransformCountAlways(p) ==
    /\ pc[p] = "transform"
    /\ LET sc == scan[p]
           err == TransformError(fs, perm, sc.full_path)
       IN  IF err = Ok
           THEN /\ fs' = TransformResult(fs, sc.full_path, sc.req.width, sc.req.height)
                /\ scan' = [scan EXCEPT
                       ![p].details = Append(sc.details,
                           Entry("OK", sc.full_path, "Success",
                                 Basename(sc.backup_path), 0, 0)),
                       ![p].processed_count = sc.processed_count + 1]
           ELSE /\ scan' = [scan EXCEPT
                       ![p].details = Append(sc.details,
                           Entry("FAIL", sc.full_path, err, <<>>, 0, 0)),
                       ![p].processed_count = sc.processed_count + 1]
                /\ UNCHANGED fs
    /\ pc' = [pc EXCEPT ![p] = "walk"]
    /\ UNCHANGED <<perm, clock, rst, fs0, last, known, nreq, nrest, marked, nm>>

\* process_image, step 2: the image is opened, resized and saved in place
ScanTransform(p) ==
    /\ pc[p] = "transform"
    /\ LET sc == scan[p]
           err == TransformError(fs, perm, sc.full_path)
       IN  IF err = Ok
           THEN /\ fs' = TransformResult(fs, sc.full_path, sc.req.width, sc.req.height)
                /\ scan' = [scan EXCEPT
                       ![p].details = Append(sc.details,
                           Entry("OK", sc.full_path, "Success",
                                 Basename(sc.backup_path), 0, 0)),
                       ![p].processed_count = sc.processed_count + 1]
           ELSE /\ scan' = [scan EXCEPT ![p].details = Append(sc.details,
                               Entry("FAIL", sc.full_path, err, <<>>, 0, 0))]
                /\ UNCHANGED fs
    /\ pc' = [pc EXCEPT ![p] = "walk"]
    /\ UNCHANGED <<perm, clock, rst, fs0, last, known, nreq, nrest, marked, nm>>

\* the walk is over: the report is returned
ScanReturn(p) ==
    /\ pc[p] = "walk"
    /\ scan[p].stack = <<>>
    /\ Complete(p, "scan", scan[p].req, ScanResult(scan[p]))
    /\ scan' = [scan EXCEPT ![p] = NoScan]
    /\ UNCHANGED <<fs, perm, clock, rst, known, nreq, nrest, marked, nm>>

(***************************************************************************)
(* POST /scan-backups                                                      *)
(***************************************************************************)
\* the directories os.walk visits from the directories of stack, in order
RECURSIVE WalkOrder(_, _)
WalkOrder(pm, stack) ==
    IF stack = <<>> THEN <<>>
    ELSE IF Searchable(pm, Head(stack))
    THEN <<Head(stack)>> \o WalkOrder(pm, WalkRest(pm, stack))
    ELSE WalkOrder(pm, WalkRest(pm, stack))

\* a set of names as the list a directory listing gives; the order is the
\* filesystem's, the model fixes one
RECURSIVE ListOf(_)
ListOf(S) ==
    IF S = {} THEN <<>>
    ELSE LET n == CHOOSE m \in S : \A o \in S : Len(m) <= Len(o)
         IN  <<n>> \o ListOf(S \ {n})

\* a catalog that gives the backup's own name as the original's
BackupRecordNoSplit(root, file) ==
    [backup_path |-> Join(root, file),
     original_path |-> Join(root, file),
     filename |-> file]

\* the record appended for a file of directory root whose name has the marker
BackupRecord(root, file) ==
    [backup_path |-> Join(root, file),
     original_path |-> Join(root, OriginalFrom(file)),
     filename |-> file]

\* the records of one directory: "for file in files: if '.backup_' in file"
RECURSIVE RecordsOf(_, _)
RecordsOf(root, files) ==
    IF files = <<>> THEN <<>>
    ELSE IF Contains(Head(files), SEP)
    THEN <<BackupRecord(root, Head(files))>> \o RecordsOf(root, Tail(files))
    ELSE RecordsOf(root, Tail(files))

\* the records of the directories of dirs, in walk order
RECURSIVE Catalog(_, _, _)
Catalog(f, pm, dirs) ==
    IF dirs = <<>> THEN <<>>
    ELSE RecordsOf(Head(dirs), ListOf(Listing(f, pm, Head(dirs))))
            \o Catalog(f, pm, Tail(dirs))

\* the whole handler: it only reads the tree
ScanBackups(p, folder_path) ==
    /\ pc[p] = "idle"
    /\ nreq' = nreq + 1
    /\ LET rq == [NoReq EXCEPT !.folder_path = folder_path]
       IN  IF ~IsDir(perm, folder_path)
           THEN /\ Complete(p, "backups", rq,
                         [NoRes EXCEPT !.code = 404,
                                       !.error = "Directory does not exist"])
                /\ UNCHANGED known
           ELSE LET backups == Catalog(fs, perm, WalkOrder(perm, <<folder_path>>))
                IN  /\ Complete(p, "backups", rq,
                         [NoRes EXCEPT !.code = 200, !.backups = backups])
                    /\ known' = known \cup {backups[i] : i \in 1..Len(backups)}
    /\ UNCHANGED <<fs, perm, clock, scan, rst, nrest, marked, nm>>

(***************************************************************************)
(* POST /restore                                                           *)
(***************************************************************************)
RestoreItems == [backup_path : Paths, original_path : Paths]

Batches == UNION {[1..k -> RestoreItems] : k \in 0..MaxBatch}

RestoreResult(r) ==
    [NoRes EXCEPT !.code = 200, !.restored = r.restored_count, !.logs = r.logs]

RestoreStart(p, files) ==
    /\ pc[p] = "idle"
    /\ nreq' = nreq + 1
    /\ fs0' = [fs0 EXCEPT ![p] = fs]
    /\ nrest' = nrest + 1
    /\ marked' = (marked \/ \E i \in 1..Len(files) :
                                Contains(Basename(files[i].original_path), SEP))
    /\ rst' = [rst EXCEPT ![p] = [NoRestore EXCEPT !.files = files, !.idx = 1]]
    /\ pc' = [pc EXCEPT ![p] = "restore"]
    /\ UNCHANGED <<fs, perm, clock, scan, last, known, nm>>

\* a restore whose copy has a try of its own and goes on to the delete
RestoreCopyIgnoreError(p) ==
    /\ pc[p] = "restore"
    /\ rst[p].idx <= Len(rst[p].files)
    /\ LET item == rst[p].files[rst[p].idx]
           err == CopyError(fs, perm, item.backup_path, item.original_path)
       IN  fs' = IF err = Ok
                 THEN CopyResult(fs, item.backup_path, item.original_path)
                 ELSE fs
    /\ pc' = [pc EXCEPT ![p] = "remove"]
    /\ UNCHANGED <<rst, perm, clock, scan, fs0, last, known, nreq, nrest, marked, nm>>

\* a restore that copies the original over the backup
RestoreCopySwapped(p) ==
    /\ pc[p] = "restore"
    /\ rst[p].idx <= Len(rst[p].files)
    /\ LET r == rst[p]
           item == r.files[r.idx]
           err == CopyError(fs, perm, item.original_path, item.backup_path)
       IN  IF err = Ok
           THEN /\ fs' = CopyResult(fs, item.original_path, item.backup_path)
                /\ pc' = [pc EXCEPT ![p] = "remove"]
                /\ UNCHANGED rst
           ELSE /\ rst' = [rst EXCEPT
                       ![p].logs = Append(r.logs,
                           RestoreEntry(FALSE, "Error restoring", item.backup_path, err)),
                       ![p].idx = r.idx + 1]
                /\ UNCHANGED <<fs, pc>>
    /\ UNCHANGED <<perm, clock, scan, fs0, last, known, nreq, nrest, marked, nm>>

\* a restore whose try is around the loop: the first error ends the batch
RestoreCopyAbort(p) ==
    /\ pc[p] = "restore"
    /\ rst[p].idx <= Len(rst[p].files)
    /\ LET r == rst[p]
           item == r.files[r.idx]
           err == CopyError(fs, perm, item.backup_path, item.original_path)
       IN  IF err = Ok
           THEN /\ fs' = CopyResult(fs, item.backup_path, item.original_path)
                /\ pc' = [pc EXCEPT ![p] = "remove"]
                /\ UNCHANGED rst
           ELSE /\ rst' = [rst EXCEPT
                       ![p].logs = Append(r.logs,
                           RestoreEntry(FALSE, "Error restoring", item.backup_path, err)),
                       ![p].idx = Len(r.files) + 1]
                /\ UNCHANGED <<fs, pc>>
    /\ UNCHANGED <<perm, clock, scan, fs0, last, known, nreq, nrest, marked, nm>>

\* step 1 of an item: shutil.copy2(backup, original); an error is logged and
\* the loop goes on to the next item
RestoreCopy(p) ==
    /\ pc[p] = "restore"
    /\ rst[p].idx <= Len(rst[p].files)
    /\ LET r == rst[p]
           item == r.files[r.idx]
           err == CopyError(fs, perm, item.backup_path, item.original_path)
       IN  IF err = Ok
           THEN /\ fs' = CopyResult(fs, item.backup_path, item.original_path)
                /\ pc' = [pc EXCEPT ![p] = "remove"]
                /\ UNCHANGED rst
           ELSE /\ rst' = [rst EXCEPT
                       ![p].logs = Append(r.logs,
                           RestoreEntry(FALSE, "Error restoring", item.backup_path, err)),
                       ![p].idx = r.idx + 1]
                /\ UNCHANGED <<fs, pc>>
    /\ UNCHANGED <<perm, clock, scan, fs0, last, known, nreq, nrest, marked, nm>>

\* a restore that puts the line of a restored item at the head of the log
RestoreRemovePrepend(p) ==
    /\ pc[p] = "remove"
    /\ LET r == rst[p]
           item == r.files[r.idx]
           err == RemoveError(fs, perm, item.backup_path)
       IN  IF err = Ok
           THEN /\ fs' = RemoveResult(fs, item.backup_path)
                /\ rst' = [rst EXCEPT
                       ![p].restored_count = r.restored_count + 1,
                       ![p].logs = <<RestoreEntry(TRUE, "Restored & Deleted Backup",
                                                  item.original_path, Ok)>> \o r.logs,
                       ![p].idx = r.idx + 1]
           ELSE /\ rst' = [rst EXCEPT
                       ![p].logs = Append(r.logs,
                           RestoreEntry(FALSE, "Error restoring", item.backup_path, err)),
                       ![p].idx = r.idx + 1]
                /\ UNCHANGED fs
    /\ pc' = [pc EXCEPT ![p] = "restore"]
    /\ UNCHANGED <<perm, clock, scan, fs0, last, known, nreq, nrest, marked, nm>>

\* step 2 of an item: os.remove(backup), then the item is counted and logged
RestoreRemove(p) ==
    /\ pc[p] = "remove"
    /\ LET r == rst[p]
           item == r.files[r.idx]
           err == RemoveError(fs, perm, item.backup_path)
       IN  IF err = Ok
           THEN /\ fs' = RemoveResult(fs, item.backup_path)
                /\ rst' = [rst EXCEPT
                       ![p].restored_count = r.restored_count + 1,
                       ![p].logs = Append(r.logs,
                           RestoreEntry(TRUE, "Restored & Deleted Backup",
                                        item.original_path, Ok)),
                       ![p].idx = r.idx + 1]
           ELSE /\ rst' = [rst EXCEPT
                       ![p].logs = Append(r.logs,
                           RestoreEntry(FALSE, "Error restoring", item.backup_path, err)),
                       ![p].idx = r.idx + 1]
                /\ UNCHANGED fs
    /\ pc' = [pc EXCEPT ![p] = "restore"]
    /\ UNCHANGED <<perm, clock, scan, fs0, last, known, nreq, nrest, marked, nm>>

\* the loop is over: the report is returned
RestoreReturn(p) ==
    /\ pc[p] = "restore"
    /\ rst[p].idx > Len(rst[p].files)
    /\ Complete(p, "restore", [NoReq EXCEPT !.files = rst[p].files],
                RestoreResult(rst[p]))
    /\ rst' = [rst EXCEPT ![p] = NoRestore]
    /\ UNCHANGED <<fs, perm, clock, scan, known, nreq, nrest, marked, nm>>

(***************************************************************************)
(* The reference behaviour: one request is served from start to finish     *)
(* before the next is read.  Restore takes whatever items the caller       *)
(* sends.                                                                  *)
(***************************************************************************)
Idle == \A p \in Procs : pc[p] = "idle"

\* the steps of the handlers under way
Step(p) ==
    \/ ScanWalk(p)
    \/ ScanBackup(p)
    \/ ScanTransform(p)
    \/ ScanReturn(p)
    \/ RestoreCopy(p)
    \/ RestoreRemove(p)
    \/ RestoreReturn(p)

Next ==
    \/ Idle /\ Tick
    \/ \E p \in SeqProcs :
        \/ Idle /\ nreq < MaxReq /\ \E rq \in ScanRequests : ScanStart(p, rq)
        \/ Idle /\ nreq < MaxReq /\ \E d \in Dirs \cup {NoDir} : ScanBackups(p, d)
        \/ Idle /\ nreq < MaxReq /\ nrest < MaxRestore
                /\ \E files \in Batches : RestoreStart(p, files)
        \/ Step(p)

Spec == Init /\ [][Next]_vars

(***************************************************************************)
(* The same server used as the interface intends: the items of a restore   *)
(* are records that /scan-backups returned earlier.                        *)
(***************************************************************************)
KnownItems ==
    {[backup_path |-> b.backup_path, original_path |-> b.original_path] : b \in known}

KnownBatches == UNION {[1..k -> KnownItems] : k \in 0..MaxBatch}

NextCatalog ==
    \/ Idle /\ Tick
    \/ \E p \in SeqProcs :
        \/ Idle /\ nreq < MaxCatReq /\ \E rq \in ScanRequests : ScanStart(p, rq)
        \/ Idle /\ nreq < MaxCatReq /\ \E d \in Dirs \cup {NoDir} : ScanBackups(p, d)
        \/ Idle /\ nreq < MaxCatReq /\ \E files \in KnownBatches : RestoreStart(p, files)
        \/ Step(p)

SpecCatalog == Init /\ [][NextCatalog]_vars

(***************************************************************************)
(* The server with two request workers: two non-dry-run scans are served   *)
(* at once and their steps (directory listing and presence check, backup   *)
(* copy, resize) interleave with no locking, while the clock runs.          *)
(***************************************************************************)
ConcurrentRequests == {rq \in ScanRequests : AllFields(rq) /\ ~rq.dry_run}

NextConcurrent ==
    \/ Tick
    \/ \E p \in Procs :
        \/ nreq < MaxConcReq /\ \E rq \in ConcurrentRequests : ScanStart(p, rq)
        \/ ScanWalk(p)
        \/ ScanBackup(p)
        \/ ScanTransform(p)
        \/ ScanReturn(p)

SpecConcurrent == Init /\ [][NextConcurrent]_vars

(***************************************************************************)
(* The naming scheme on its own: a backup name is built from a name and a  *)
(* clock reading as the scan builds it, and the catalog derives the        *)
(* original name from it.                                                  *)
(***************************************************************************)
Tokens == {<<"p">>, <<".">>, <<"b", "a", "c", "k", "u", "p">>, <<"_">>}

\* the names made of at most k tokens
RECURSIVE NamesUpTo(_)
NamesUpTo(k) ==
    IF k = 0 THEN {<<>>}
    ELSE NamesUpTo(k - 1) \cup {n \o t : n \in NamesUpTo(k - 1), t \in Tokens}

\* a name the scan can be asked for: not empty (the request check) and
\* without the marker
ValidName(n) == n # <<>> /\ ~Contains(n, SEP)

InitNaming ==
    /\ fs = [path \in Paths |-> Absent]
    /\ perm = [d \in Dirs |-> "rwx"]
    /\ clock = 0
    /\ pc = [p \in Procs |-> "idle"]
    /\ scan = [p \in Procs |-> NoScan]
    /\ rst = [p \in Procs |-> NoRestore]
    /\ fs0 = [p \in Procs |-> fs]
    /\ last = NoExchange
    /\ known = {}
    /\ nreq = 0
    /\ nrest = 0
    /\ marked = FALSE
    /\ nm \in [step : {"start"}, n : NamesUpTo(MaxTokens), t : 0..MaxClock,
               backup : {<<>>}, original : {<<>>}]

\* process_image lines 62-63, on the file name
NameFor ==
    /\ nm.step = "start"
    /\ nm' = [nm EXCEPT !.step = "named",
                        !.backup = BackupName(nm.n, Strftime(nm.t))]
    /\ UNCHANGED <<fs, perm, clock, pc, scan, rst, fs0, last, known, nreq, nrest, marked>>

\* scan_backups lines 155-157, on the file name
DeriveOriginal ==
    /\ nm.step = "named"
    /\ Contains(nm.backup, SEP)
    /\ nm' = [nm EXCEPT !.step = "derived", !.original = OriginalFrom(nm.backup)]
    /\ UNCHANGED <<fs, perm, clock, pc, scan, rst, fs0, last, known, nreq, nrest, marked>>

NextNaming == NameFor \/ DeriveOriginal

SpecNaming == InitNaming /\ [][NextNaming]_vars

(***************************************************************************)
(* Properties.                                                             *)
(***************************************************************************)

\* C6: naming round trip.  For every valid original name n and timestamp t,
\* the name the catalog derives from the backup name the scan builds
\* (n + ".backup_" + t, cut at the first ".backup_") is n.
C6_NamingRoundTrip ==
    (nm.step = "derived" /\ ValidName(nm.n)) => nm.original = nm.n

\* a valid name that itself holds a dot and most of the marker has made the
\* round trip
C6_Witness ==
    /\ nm.step = "derived"
    /\ ValidName(nm.n)
    /\ Contains(nm.n, Slice(SEP, 1, Len(SEP) - 1))
    /\ nm.t > 0

\* the item a restore is working on
Item(p) == rst[p].files[rst[p].idx]

\* process p is inside scan_and_resize
InScan(p) == pc[p] \in {"walk", "backup", "transform"}

\* process p is inside the loop of restore_files
InRestore(p) == pc[p] \in {"restore", "remove"}

\* the name is a backup's: it carries the marker
IsBackupName(n) == Contains(n, SEP)

\* C1: in every restore batch, a file disappears only in step 2 of an item,
\* it is that item's backup_path, and step 1 of the same item has succeeded:
\* the item's original path already holds the backup's content.
C1_DeleteOnlyAfterCopy ==
    [][\A p \in Procs : \A path \in Paths :
        (InRestore(p) /\ fs[path] # Absent /\ fs'[path] = Absent)
            => /\ pc[p] = "remove"
               /\ path = Item(p).backup_path
               /\ Item(p).original_path # path
               /\ fs[Item(p).original_path] = fs[path]]_vars

\* a restore has deleted a backup made by a scan, and its content is in the
\* original
C1_Witness ==
    \E p \in Procs :
        /\ pc[p] = "restore"
        /\ rst[p].idx = 2
        /\ rst[p].restored_count = 1
        /\ LET item == rst[p].files[1]
           IN  /\ IsBackupName(Basename(item.backup_path))
               /\ ~IsBackupName(Basename(item.original_path))
               /\ fs0[p][item.backup_path] # Absent
               /\ fs0[p][item.original_path] # fs0[p][item.backup_path]
               /\ fs[item.backup_path] = Absent
               /\ fs[item.original_path] = fs0[p][item.backup_path]

\* C2: in a non-dry-run scan, the content of an existing file changes only in
\* the resize step of process_image, the file is the match being processed,
\* and the copy has succeeded before: the backup path, which did not exist
\* when the request arrived, holds the file's content.  A failed copy ends
\* process_image without the resize.
C2_BackupBeforeTransform ==
    [][\A p \in Procs :
        /\ \A path \in Paths :
            (InScan(p) /\ fs[path] # Absent /\ fs'[path] # fs[path])
                => /\ pc[p] = "transform"
                   /\ ~scan[p].req.dry_run
                   /\ path = scan[p].full_path
                   /\ scan[p].backup_path \in Paths
                   /\ scan[p].backup_path # path
                   /\ DirOf(scan[p].backup_path) = DirOf(path)
                   /\ StartsWith(Basename(scan[p].backup_path), Basename(path) \o SEP)
                   /\ fs0[p][scan[p].backup_path] = Absent
                   /\ fs[scan[p].backup_path] = fs[path]
        /\ (pc[p] = "backup" /\ pc'[p] = "transform")
                => /\ scan'[p].backup_path \in Paths
                   /\ fs[scan'[p].backup_path] = Absent
                   /\ fs'[scan'[p].backup_path] = fs[scan[p].full_path]
        /\ (pc[p] = "backup" /\ pc'[p] # "transform")
                => /\ pc'[p] = "walk"
                   /\ fs' = fs]_vars

\* a scan has resized a file whose backup it made first
C2_Witness ==
    \E p \in Procs :
        /\ pc[p] = "walk"
        /\ scan[p].processed_count = 1
        /\ ~scan[p].req.dry_run
        /\ fs[scan[p].full_path] # fs0[p][scan[p].full_path]
        /\ fs[scan[p].backup_path] = fs0[p][scan[p].full_path]

\* the paths of the log lines with the tag
Tagged(logs, tag) == {logs[i].path : i \in {j \in 1..Len(logs) : logs[j].tag = tag}}

\* process p is about to return its scan report, which repeats the
\* non-dry-run scan served just before
SecondRun(p) ==
    /\ pc[p] = "walk"
    /\ scan[p].stack = <<>>
    /\ last.op = "scan"
    /\ last.req = scan[p].req
    /\ ~scan[p].req.dry_run

\* C3: when a non-dry-run scan is run twice in succession with the same
\* request, every match the first run reported as processed is reported as
\* skipped by the second, files_found is the same, and the second run has
\* processed 0, made no backup and resized nothing.
C3_IdempotentRescan ==
    \A p \in Procs :
        SecondRun(p)
            => /\ Tagged(last.res.logs, "OK") \subseteq Tagged(scan[p].details, "SKIPPED")
               /\ Len(scan[p].found_files) = last.res.files_found
               /\ scan[p].processed_count = 0
               /\ fs = fs0[p]

\* the second of two such runs ends, and the first had processed two files
C3_Witness ==
    \E p \in Procs :
        /\ SecondRun(p)
        /\ last.res.processed = 2
        /\ Len(scan[p].details) = 2

\* C4: no step of a dry-run scan changes the tree.
C4_DryRunPurity ==
    [][(\E p \in Procs : InScan(p) /\ scan[p].req.dry_run)
            => (fs' = fs /\ perm' = perm)]_vars

\* a dry-run scan is about to report two would-be matches, the tree being
\* as it was
C4_Witness ==
    \E p \in Procs :
        /\ pc[p] = "walk"
        /\ scan[p].stack = <<>>
        /\ scan[p].req.dry_run
        /\ scan[p].processed_count = 2
        /\ fs = fs0[p]

\* the backups of the file named n in directory d, as the scan recognises
\* them
BackupsOf(f, d, n) ==
    {m \in Names : f[Join(d, m)] # Absent /\ StartsWith(m, n \o SEP)}

\* while a scan runs, every backup that was there when it arrived is as it
\* was
ScanKeepsBackups ==
    \A p \in Procs :
        InScan(p) =>
            \A path \in Paths :
                (IsBackupName(Basename(path)) /\ fs0[p][path] # Absent)
                    => fs[path] = fs0[p][path]

C7_RestoreSuccess ==
    [][\A p \in Procs :
        /\ (pc[p] = "restore" /\ pc'[p] = "remove")
            => /\ fs[Item(p).backup_path] # Absent
               /\ fs'[Item(p).original_path] = fs[Item(p).backup_path]
               /\ fs'[Item(p).backup_path] = fs[Item(p).backup_path]
        /\ (InRestore(p) /\ rst'[p].restored_count # rst[p].restored_count
                /\ pc'[p] # "idle")
            => /\ pc[p] = "remove"
               /\ rst'[p].restored_count = rst[p].restored_count + 1
               /\ fs[Item(p).original_path] = fs[Item(p).backup_path]
               /\ fs'[Item(p).backup_path] = Absent
               /\ fs'[Item(p).original_path] = fs[Item(p).original_path]]_vars

\* a batch of one item has been restored: the resized original has its
\* first dimensions again and the backup is gone
C7_Witness ==
    \E p \in Procs :
        /\ pc[p] = "restore"
        /\ Len(rst[p].files) = 1
        /\ rst[p].idx = 2
        /\ rst[p].restored_count = 1
        /\ LET item == rst[p].files[1]
           IN  /\ fs0[p][item.original_path].kind = "image"
               /\ fs0[p][item.original_path].w # OrigDim
               /\ fs[item.original_path].w = OrigDim
               /\ fs[item.original_path] = fs0[p][item.backup_path]
               /\ fs[item.backup_path] = Absent

\* C8: when the copy of an item fails, the step changes no file, the item
\* is logged as an error and not counted, and the loop goes on with the next
\* item, which so finds the tree it would have found alone; when the loop
\* ends every item has its log line.
C8_RestoreCopyFailure ==
    [][\A p \in Procs :
        /\ (/\ pc[p] = "restore"
            /\ rst[p].idx <= Len(rst[p].files)
            /\ CopyError(fs, perm, Item(p).backup_path, Item(p).original_path) # Ok)
            => /\ fs' = fs
               /\ pc'[p] = "restore"
               /\ rst'[p].files = rst[p].files
               /\ rst'[p].idx = rst[p].idx + 1
               /\ rst'[p].restored_count = rst[p].restored_count
               /\ Len(rst'[p].logs) = Len(rst[p].logs) + 1
               /\ SubSeq(rst'[p].logs, 1, Len(rst[p].logs)) = rst[p].logs
               /\ ~rst'[p].logs[Len(rst'[p].logs)].ok
               /\ rst'[p].logs[Len(rst'[p].logs)].path = Item(p).backup_path
        /\ (pc[p] = "restore" /\ rst[p].idx > Len(rst[p].files))
            => Len(rst[p].logs) = Len(rst[p].files)]_vars

\* the first item of a batch failed for want of its backup file, and the
\* second, a backup made by a scan, was restored all the same
C8_Witness ==
    \E p \in Procs :
        /\ pc[p] = "restore"
        /\ Len(rst[p].files) = 2
        /\ rst[p].idx = 3
        /\ rst[p].restored_count = 1
        /\ ~rst[p].logs[1].ok
        /\ rst[p].logs[1].err = "FileNotFoundError"
        /\ rst[p].logs[2].ok
        /\ IsBackupName(Basename(rst[p].files[2].backup_path))
        /\ ~IsBackupName(Basename(rst[p].files[2].original_path))
        /\ fs = [fs0[p] EXCEPT ![rst[p].files[2].backup_path] = Absent,
                               ![rst[p].files[2].original_path] =
                                    fs0[p][rst[p].files[2].backup_path]]

\* the number of log lines with the tag
CountTag(logs, tag) == Cardinality({i \in 1..Len(logs) : logs[i].tag = tag})

\* the log line is that of a resize that failed after its copy had succeeded
TransformFailed(e) ==
    e.tag = "FAIL" /\ e.text \in {"UnidentifiedImageError"}

\* C9: when the copy succeeded and the resize failed, the file's line is a
\* FAIL line with the error, the file is in files_found and not in
\* processed, and the backup the scan made stays beside the file.
C9_TransformFailureKeepsBackup ==
    \A p \in Procs :
        InScan(p) =>
            /\ scan[p].processed_count = CountTag(scan[p].details, "OK")
            /\ \A i \in 1..Len(scan[p].details) :
                LET e == scan[p].details[i]
                IN  TransformFailed(e)
                        => /\ \E j \in 1..Len(scan[p].found_files) :
                                    scan[p].found_files[j] = e.path
                           /\ e.path \notin Tagged(scan[p].details, "OK")
                           /\ \E m \in BackupsOf(fs, DirOf(e.path), Basename(e.path)) :
                                /\ fs0[p][Join(DirOf(e.path), m)] = Absent
                                /\ fs[Join(DirOf(e.path), m)] = fs0[p][e.path]

\* a scan has logged a failed resize
C9_Witness ==
    \E p \in Procs :
        /\ pc[p] = "walk"
        /\ scan[p].stack = <<>>
        /\ \E i \in 1..Len(scan[p].details) : TransformFailed(scan[p].details[i])

\* the directories of the walk that held the target when the request arrived
Matches(p) ==
    LET Holds(d) == scan[p].req.image_name \in Listing(fs0[p], perm, d)
    IN  SelectSeq(WalkOrder(perm, <<scan[p].req.folder_path>>), Holds)

\* the tag a match gets when it is the only match: decided by its own
\* directory and content
OutcomeAlone(f, pm, now, path, rq) ==
    IF \E m \in BackupsOf(f, DirOf(path), Basename(path)) : TRUE THEN "SKIPPED"
    ELSE IF rq.dry_run THEN "OK"
    ELSE IF CopyError(f, pm, path,
                      Join(DirOf(path), BackupName(Basename(path), Strftime(now)))) # Ok
    THEN "FAIL"
    ELSE IF TransformError(f, pm, path) # Ok THEN "FAIL"
    ELSE "OK"

\* C10: a scan returns only when every match under the root has been
\* visited, failures or not, and each match has the one log line, in walk
\* order, with the outcome it would have had alone.
C10_ScanFailureIsolation ==
    \A p \in Procs :
        (pc[p] = "walk" /\ scan[p].stack = <<>>) =>
            LET m == Matches(p)
                target == scan[p].req.image_name
            IN  /\ Len(scan[p].details) = Len(m)
                /\ Len(scan[p].found_files) = Len(m)
                /\ \A i \in 1..Len(m) :
                    /\ scan[p].found_files[i] = Join(m[i], target)
                    /\ scan[p].details[i].path = Join(m[i], target)
                    /\ scan[p].details[i].tag =
                            OutcomeAlone(fs0[p], perm, clock,
                                         Join(m[i], target), scan[p].req)

\* the first match of a scan failed and the second was processed
C10_Witness ==
    \E p \in Procs :
        /\ pc[p] = "walk"
        /\ scan[p].stack = <<>>
        /\ Len(scan[p].details) = 2
        /\ scan[p].details[1].tag = "FAIL"
        /\ scan[p].details[2].tag = "OK"
        /\ fs[scan[p].details[2].path] # fs0[p][scan[p].details[2].path]

\* the log has one line per match found, each with one of the three tags,
\* and the count is that of the OK lines
WellFormedReport(found, processed, logs) ==
    /\ Len(logs) = found
    /\ \A i \in 1..Len(logs) : logs[i].tag \in {"OK", "SKIPPED", "FAIL"}
    /\ processed = CountTag(logs, "OK")
    /\ processed <= found

\* C11: every scan report, the one about to be returned and the one last
\* returned, has exactly one log line per matched file, tagged OK, SKIPPED or
\* FAIL, so that the number of lines is files_found; processed is the number
\* of OK lines and is at most files_found.
C11_ReportCounts ==
    /\ \A p \in Procs :
        (pc[p] = "walk" /\ scan[p].stack = <<>>)
            => /\ WellFormedReport(Len(scan[p].found_files),
                                   scan[p].processed_count, scan[p].details)
               /\ \A i \in 1..Len(scan[p].details) :
                    scan[p].details[i].path = scan[p].found_files[i]
    /\ last.op = "scan"
            => WellFormedReport(last.res.files_found, last.res.processed, last.res.logs)

\* a report with a failed and a processed match has been returned, and the
\* next scan is about to report one match skipped and one processed
C11_Witness ==
    \E p \in Procs :
        /\ pc[p] = "walk"
        /\ scan[p].stack = <<>>
        /\ Tagged(scan[p].details, "SKIPPED") # {}
        /\ Tagged(scan[p].details, "OK") # {}
        /\ last.op = "scan"
        /\ last.res.files_found = 2
        /\ last.res.processed = 1
        /\ CountTag(last.res.logs, "FAIL") = 1

\* C12: a match is skipped exactly when a file of its own directory has a
\* name that starts with the target name followed by ".backup_", whatever the
\* other directories hold; a skipped match is appended to found_files, is not
\* counted, and no file is touched and process_image is not entered for it,
\* in dry-run mode as well.
C12_SkipIffBackupBeside ==
    [][\A p \in Procs :
        (/\ pc[p] = "walk"
         /\ scan[p].stack # <<>>
         /\ Searchable(perm, Head(scan[p].stack))
         /\ fs[Join(Head(scan[p].stack), scan[p].req.image_name)] # Absent)
        => LET d == Head(scan[p].stack)
               n == scan[p].req.image_name
               skipped == /\ Len(scan'[p].details) = Len(scan[p].details) + 1
                          /\ scan'[p].details[Len(scan'[p].details)].tag = "SKIPPED"
                          /\ scan'[p].details[Len(scan'[p].details)].path = Join(d, n)
           IN  /\ skipped <=> BackupsOf(fs, d, n) # {}
               /\ scan'[p].found_files = Append(scan[p].found_files, Join(d, n))
               /\ skipped => /\ scan'[p].processed_count = scan[p].processed_count
                             /\ pc'[p] = "walk"
                             /\ fs' = fs]_vars

\* a scan has processed the match of the root, which had no backup beside
\* it, while the subdirectory held a backup of the same name, and has
\* skipped the match of the subdirectory
C12_Witness ==
    \E p \in Procs : \E d \in Dirs : \E e \in Dirs \ {d} :
        /\ pc[p] = "walk"
        /\ scan[p].stack = <<>>
        /\ BackupsOf(fs0[p], d, scan[p].req.image_name) = {}
        /\ BackupsOf(fs0[p], e, scan[p].req.image_name) # {}
        /\ Join(d, scan[p].req.image_name) \in Tagged(scan[p].details, "OK")
        /\ Join(e, scan[p].req.image_name) \in Tagged(scan[p].details, "SKIPPED")
        /\ fs[Join(d, scan[p].req.image_name)] # fs0[p][Join(d, scan[p].req.image_name)]

\* the log line is that of the item: a restored item is logged by its
\* original path, a failed one by its backup path
LineOf(line, item) ==
    IF line.ok THEN line.path = item.original_path
    ELSE line.path = item.backup_path

\* C13: restore works on the items in the order supplied: each step is about
\* the item at the loop's position, which moves forward one item at a time
\* and only when that item's line has been appended to the log; so the log
\* returned has exactly one line per item, in the order of the items.
C13_RestoreInOrder ==
    [][\A p \in Procs :
        /\ (InRestore(p) /\ pc'[p] # "idle")
            => /\ rst'[p].files = rst[p].files
               /\ rst'[p].idx \in {rst[p].idx, rst[p].idx + 1}
               /\ \A path \in Paths :
                    fs'[path] # fs[path]
                        => path \in {Item(p).backup_path, Item(p).original_path}
               /\ IF rst'[p].idx = rst[p].idx
                  THEN rst'[p].logs = rst[p].logs
                  ELSE /\ Len(rst'[p].logs) = Len(rst[p].logs) + 1
                       /\ \A i \in 1..Len(rst'[p].logs) :
                            LineOf(rst'[p].logs[i], rst[p].files[i])
        /\ (pc[p] = "restore" /\ pc'[p] = "idle")
            => /\ Len(rst[p].logs) = Len(rst[p].files)
               /\ \A i \in 1..Len(rst[p].files) :
                    LineOf(rst[p].logs[i], rst[p].files[i])]_vars

\* a batch that names the same backup twice ends: the first item was
\* restored, the second failed for want of the backup, and the log says so
\* in that order
C13_Witness ==
    \E p \in Procs :
        /\ pc[p] = "restore"
        /\ Len(rst[p].files) = 2
        /\ rst[p].idx = 3
        /\ rst[p].files[1] = rst[p].files[2]
        /\ rst[p].logs[1].ok
        /\ ~rst[p].logs[2].ok
        /\ rst[p].logs[1].path = rst[p].files[1].original_path
        /\ rst[p].logs[2].path = rst[p].files[2].backup_path

\* C14 as claimed: a scan whose root is a directory that cannot be read
\* returns no scan report.
C14_UnreadableRootFails ==
    ~(/\ last.op = "scan"
      /\ last.res.code = 200
      /\ IsDir(perm, last.req.folder_path)
      /\ ~Searchable(perm, last.req.folder_path))

\* the content is an image whose dimensions the resize has changed
Transformed(c) == c.kind = "image" /\ (c.w # OrigDim \/ c.h # OrigDim)

\* every transformed file of the tree has, in its own directory, a backup
\* that holds the image as it was before any resize
Recoverable(f) ==
    \A d \in Dirs : \A n \in TargetNames :
        Transformed(f[Join(d, n)])
            => \E m \in BackupsOf(f, d, n) : f[Join(d, m)] = Image(f[Join(d, n)].id)

\* C15 as claimed: when two non-dry-run scans of the same tree interleave
\* their steps, no step changes the content of an existing backup, and once
\* both scans have returned every transformed file still has a backup that
\* holds its content from before the transform.
C15_BenignRace ==
    [][/\ \A path \in Paths :
            (IsBackupName(Basename(path)) /\ fs[path] # Absent)
                => fs'[path] = fs[path]
       /\ ((\A p \in Procs : pc'[p] = "idle") /\ nreq' = MaxConcReq)
            => Recoverable(fs')]_vars

\* C16: after any sequence of scans served one at a time and of restores
\* whose items are records of the catalog, every file a scan has transformed
\* and no restore has put back since has, in its own directory, a backup
\* that holds the file as it was before the transform.
C16_Recoverability == Recoverable(fs)

\* a scan transformed the files of both directories; the catalog was read
\* and one of the two was restored: the other is still transformed and has
\* its backup
C16_Witness ==
    \E d \in Dirs : \E e \in Dirs \ {d} : \E n \in TargetNames : \E b \in known :
        /\ Idle
        /\ Transformed(fs[Join(d, n)])
        /\ BackupsOf(fs, d, n) # {}
        /\ b.original_path = Join(e, n)
        /\ fs[b.backup_path] = Absent
        /\ fs[Join(e, n)] = Image(fs[Join(e, n)].id)
        /\ BackupsOf(fs, e, n) = {}

\* the tree the server was started on: the second worker serves no request
\* when requests are served one at a time, so its snapshot is never renewed
TreeAtStart == fs0[2]

\* the paths of the backup files of the tree
BackupPaths(f) == {path \in Paths : IsBackupName(Basename(path)) /\ f[path] # Absent}

\* C17: after a non-dry-run scan, served first on a tree without backups,
\* the catalog of the same root has exactly one record per backup the scan
\* made, each with the path of the file that was backed up as original_path;
\* and a restore of all the records of a catalog that covers every backup of
\* the tree succeeds for every item and leaves the tree as it was before the
\* scan, with no backup in it.
C17_ScanCatalogRestoreRoundTrip ==
    [][\A p \in Procs :
        /\ \A d \in Dirs :
            (/\ nreq = 1
             /\ last.op = "scan"
             /\ ~last.req.dry_run
             /\ last.req.folder_path = d
             /\ ScanBackups(p, d))
            => /\ {b.backup_path : b \in known'} = BackupPaths(fs)
               /\ Cardinality(known') = Cardinality(BackupPaths(fs))
               /\ \A b \in known' :
                    /\ b.original_path \in Tagged(last.res.logs, "OK")
                                            \cup Tagged(last.res.logs, "FAIL")
                    /\ DirOf(b.original_path) = DirOf(b.backup_path)
                    /\ b.filename = Basename(b.backup_path)
                    /\ TreeAtStart[b.backup_path] = Absent
                    /\ fs[b.backup_path] = TreeAtStart[b.original_path]
        /\ (/\ pc[p] = "restore"
            /\ rst[p].idx > Len(rst[p].files)
            /\ Len(rst[p].files) = Cardinality(known)
            /\ {rst[p].files[i] : i \in 1..Len(rst[p].files)} = KnownItems
            /\ {b.backup_path : b \in known} = BackupPaths(fs0[p]))
            => /\ rst[p].restored_count = Len(rst[p].files)
               /\ \A i \in 1..Len(rst[p].logs) : rst[p].logs[i].ok
               /\ fs = TreeAtStart
               /\ BackupPaths(fs) = {}]_vars

\* the scan transformed two files, the catalog gave two records, and the
\* restore of both has put the tree back as it was
C17_Witness ==
    \E p \in Procs :
        /\ pc[p] = "restore"
        /\ rst[p].idx = 3
        /\ rst[p].restored_count = 2
        /\ {rst[p].files[i] : i \in 1..2} = KnownItems
        /\ Cardinality(BackupPaths(fs0[p])) = 2
        /\ \A i \in 1..2 : Transformed(fs0[p][rst[p].files[i].original_path])
        /\ fs = TreeAtStart
        /\ BackupPaths(fs) = {}

\* process p is about to return the report of a non-dry-run scan, and the
\* request served just before was the same scan as a dry run
DryThenReal(p) ==
    /\ pc[p] = "walk"
    /\ scan[p].stack = <<>>
    /\ ~scan[p].req.dry_run
    /\ last.op = "scan"
    /\ last.req = [scan[p].req EXCEPT !.dry_run = TRUE]

\* the matches, by position in found, that have no backup in their own
\* directory in tree f
Unbacked(f, found) ==
    {i \in 1..Len(found) : BackupsOf(f, DirOf(found[i]), Basename(found[i])) = {}}

\* C18: on the same tree and with the same request fields, the dry-run scan
\* reports the matches the non-dry-run scan finds, in the same order, and
\* the same SKIPPED matches; its processed count is the number of matches
\* with no backup in their own directory, and that is the processed count
\* of the non-dry-run scan when none of its copies and resizes failed.
C18_DryRunAgreesWithRun ==
    \A p \in Procs :
        DryThenReal(p)
            => /\ last.res.files_found = Len(scan[p].found_files)
               /\ [i \in 1..Len(last.res.logs) |-> last.res.logs[i].path]
                        = scan[p].found_files
               /\ Tagged(last.res.logs, "SKIPPED") = Tagged(scan[p].details, "SKIPPED")
               /\ last.res.processed
                        = Cardinality(Unbacked(fs0[p], scan[p].found_files))
               /\ CountTag(scan[p].details, "FAIL") = 0
                        => scan[p].processed_count = last.res.processed

\* a dry run and then the run itself, on a tree where one match had a backup
\* and the other had none: both report one skipped and one processed
C18_Witness ==
    \E p \in Procs :
        /\ DryThenReal(p)
        /\ last.res.files_found = 2
        /\ last.res.processed = 1
        /\ scan[p].processed_count = 1
        /\ Cardinality(Tagged(scan[p].details, "SKIPPED")) = 1
        /\ fs # fs0[p]

\* what a copy that succeeded and a resize that failed leave behind: the
\* file at path, which is no image, and a backup of it beside it
FailedResidue(f, path) ==
    /\ f[path].kind = "junk"
    /\ \E m \in BackupsOf(f, DirOf(path), Basename(path)) :
            f[Join(DirOf(path), m)] = f[path]

\* C19: a match whose copy succeeded and whose resize failed is reported as
\* skipped and left alone by a later scan for the same name, as long as the
\* backup is in its directory; process_image is entered for a file only when
\* it had no backup beside it when the request arrived.
C19_NoRetryWhileBackupStays ==
    \A p \in Procs :
        /\ (pc[p] = "walk" /\ scan[p].stack = <<>>)
            => \A i \in 1..Len(scan[p].found_files) :
                FailedResidue(fs0[p], scan[p].found_files[i])
                    => /\ Len(scan[p].details) >= i
                       /\ scan[p].details[i].tag = "SKIPPED"
                       /\ scan[p].details[i].path = scan[p].found_files[i]
                       /\ fs[scan[p].found_files[i]] = fs0[p][scan[p].found_files[i]]
        /\ pc[p] \in {"backup", "transform"}
            => BackupsOf(fs0[p], DirOf(scan[p].full_path),
                         Basename(scan[p].full_path)) = {}

\* a scan logged a failed resize, and the next scan for the same name, with
\* other request fields, reports that file as skipped
C19_Witness ==
    \E p \in Procs : \E i \in 1..Len(last.res.logs) :
        /\ pc[p] = "walk"
        /\ scan[p].stack = <<>>
        /\ last.op = "scan"
        /\ TransformFailed(last.res.logs[i])
        /\ scan[p].req.image_name = last.req.image_name
        /\ scan[p].req # last.req
        /\ last.res.logs[i].path \in Tagged(scan[p].details, "SKIPPED")
        /\ FailedResidue(fs, last.res.logs[i].path)

====
